---------------------------- MODULE Spec2Model ----------------------------
(***************************************************************************)
(* Model of stop_loss_app.py: the fee-aware sizing helpers and the         *)
(* stop-loss sweep that main() runs when "Generate" is pressed.            *)
(*                                                                         *)
(* Numbers.  The program computes in IEEE-754 doubles.  A double is        *)
(* modelled as an exact rational (no rounding, no overflow) together with  *)
(* the special values the program can produce: signed zero, signed         *)
(* infinity and NaN.  The sweep variable stp comes from np.linspace and is *)
(* a numpy float64, so R / stp and 2*ev/q are numpy scalar divisions: a    *)
(* zero divisor gives inf or nan (with a RuntimeWarning), not an           *)
(* exception.  Every other division of the program is written behind a     *)
(* truthiness guard; those are modelled by PyDiv, which yields the value   *)
(* Err (ZeroDivisionError) on a zero divisor.                              *)
(***************************************************************************)
EXTENDS Integers, Sequences, FiniteSets

\* ------------------------------------------------------------ bounds
\* Number of samples of the sweep, np.linspace(min_sl, max_sl, PTS).  The
\* program fixes its resolution at 200; the loop is the same for any count of
\* at least 2 and is explored here with a small one.
PTS == 3
\* "Min SL" ranges over -1..MaxStop and "Max SL" over 1..MaxStop.
MaxStop == 3
\* Risk budgets R range over 0..MaxRisk.
MaxRisk == 3
\* Fee values (exec value, maint value) range over 0..MaxFee.
MaxFee == 1

MinStops == (0 - 1)..MaxStop
MaxStops == 1..MaxStop
Risks == 0..MaxRisk
Fees == 0..MaxFee
Prices == {2}
DaysHeld == {1, 2}
Ratios == {2}
FeeCaps == {0, 3, 100}

\* ------------------------------------------------------------ doubles
Abs(n) == IF n < 0 THEN 0 - n ELSE n

RECURSIVE GCD(_, _)
GCD(a, b) == IF b = 0 THEN a ELSE GCD(b, a % b)

Zero(s) == [k |-> "zero", n |-> s, d |-> 1]
Inf(s) == [k |-> "inf", n |-> s, d |-> 1]
NaN == [k |-> "nan", n |-> 0, d |-> 1]
Err == [k |-> "err", n |-> 0, d |-> 1]
NoValue == [k |-> "none", n |-> 0, d |-> 1]

\* The double n/d (d # 0), in lowest terms with a positive denominator.
Rat(n, d) ==
    IF n = 0 THEN Zero(1)
    ELSE LET g == GCD(Abs(n), Abs(d))
             s == IF d < 0 THEN 0 - 1 ELSE 1
         IN [k |-> "fin", n |-> (s * n) \div g, d |-> Abs(d) \div g]

Num(n) == Rat(n, 1)

IsErr(x) == x.k = "err"
IsNaN(x) == x.k = "nan"
IsZero(x) == x.k = "zero"
IsInf(x) == x.k = "inf"
IsFin(x) == x.k = "fin"
Sgn(x) == IF x.k = "fin" THEN (IF x.n < 0 THEN 0 - 1 ELSE 1) ELSE x.n
\* numerator of a finite double, zero included
RN(x) == IF x.k = "zero" THEN 0 ELSE x.n

Neg(a) ==
    CASE a.k = "fin" -> [a EXCEPT !.n = 0 - a.n]
      [] a.k \in {"zero", "inf"} -> [a EXCEPT !.n = 0 - a.n]
      [] OTHER -> a

Mul(a, b) ==
    IF IsErr(a) \/ IsErr(b) THEN Err
    ELSE IF IsNaN(a) \/ IsNaN(b) THEN NaN
    ELSE IF (IsInf(a) /\ IsZero(b)) \/ (IsZero(a) /\ IsInf(b)) THEN NaN
    ELSE IF IsInf(a) \/ IsInf(b) THEN Inf(Sgn(a) * Sgn(b))
    ELSE IF IsZero(a) \/ IsZero(b) THEN Zero(Sgn(a) * Sgn(b))
    ELSE Rat(a.n * b.n, a.d * b.d)

Add(a, b) ==
    IF IsErr(a) \/ IsErr(b) THEN Err
    ELSE IF IsNaN(a) \/ IsNaN(b) THEN NaN
    ELSE IF IsInf(a) THEN (IF IsInf(b) /\ b.n # a.n THEN NaN ELSE a)
    ELSE IF IsInf(b) THEN b
    ELSE IF IsZero(a) /\ IsZero(b) THEN (IF a.n = b.n THEN a ELSE Zero(1))
    ELSE IF IsZero(a) THEN b
    ELSE IF IsZero(b) THEN a
    ELSE Rat(a.n * b.d + b.n * a.d, a.d * b.d)

Sub(a, b) == Add(a, Neg(b))

\* Division of numpy float64 scalars: IEEE results, never an exception.
NpDiv(a, b) ==
    IF IsErr(a) \/ IsErr(b) THEN Err
    ELSE IF IsNaN(a) \/ IsNaN(b) THEN NaN
    ELSE IF (IsZero(a) /\ IsZero(b)) \/ (IsInf(a) /\ IsInf(b)) THEN NaN
    ELSE IF IsZero(b) \/ IsInf(a) THEN Inf(Sgn(a) * Sgn(b))
    ELSE IF IsInf(b) \/ IsZero(a) THEN Zero(Sgn(a) * Sgn(b))
    ELSE Rat(a.n * b.d, a.d * b.n)

\* Division at a site the program guards with a truthiness test (`x / q if q`):
\* a zero divisor is ZeroDivisionError, which the guard is there to prevent.
PyDiv(a, b) == IF IsZero(b) /\ ~IsErr(a) THEN Err ELSE NpDiv(a, b)

Ordered(a, b) == a.k \in {"fin", "zero", "inf"} /\ b.k \in {"fin", "zero", "inf"}

Lt(a, b) ==
    /\ Ordered(a, b)
    /\ IF IsInf(a) THEN a.n < 0 /\ ~(IsInf(b) /\ b.n < 0)
       ELSE IF IsInf(b) THEN b.n > 0
       ELSE RN(a) * b.d < RN(b) * a.d

Eq(a, b) ==
    /\ Ordered(a, b)
    /\ IF IsInf(a) \/ IsInf(b) THEN IsInf(a) /\ IsInf(b) /\ a.n = b.n
       ELSE RN(a) * b.d = RN(b) * a.d

Le(a, b) == Lt(a, b) \/ Eq(a, b)
Gt(a, b) == Lt(b, a)

\* bool(x) of a float: false for 0.0 and -0.0 only (nan is true)
Truthy(x) == ~IsZero(x)

\* max(a, b) of Python: b replaces a only when b > a
PyMax(a, b) == IF Gt(b, a) THEN b ELSE a

\* ------------------------------------------------------------ constants
EXEC_TYPES == <<"% of notional (per leg)", "Flat $ per leg", "Spread (price units per leg)">>
MAINT_TYPES == <<"None", "% of notional per day", "Flat $ per day">>
SIZINGS == <<"Include fees in sizing", "Shrink SL by round-trip fees", "Widen TP to absorb fees">>

\* t.startswith("%"), t.startswith("Flat $"), t.startswith("Spread")
IsPct(t) == t \in {EXEC_TYPES[1], MAINT_TYPES[2]}
IsFlat(t) == t \in {EXEC_TYPES[2], MAINT_TYPES[3]}
IsSpread(t) == t = EXEC_TYPES[3]

\* ------------------------------------------------------------ fee helpers
usd_exec_fee(q, p, t, v) ==
    IF IsPct(t) THEN NpDiv(Mul(Mul(q, p), v), Num(100))
    ELSE IF IsFlat(t) THEN v
    ELSE IF IsSpread(t) THEN Mul(q, v)
    ELSE Zero(1)

usd_maint_fee(q, p, t, v, d) ==
    IF t = MAINT_TYPES[1] THEN Zero(1)
    ELSE IF IsPct(t) THEN Mul(NpDiv(Mul(Mul(q, p), v), Num(100)), d)
    ELSE Mul(v, d)

fee_price_units(t, v, p) ==
    IF IsSpread(t) THEN v
    ELSE IF IsPct(t) THEN NpDiv(Mul(p, v), Num(100))
    ELSE Zero(1)

\* `fixed` of solve_size_exact
solve_fixed(et_, ev_, mt_, mv_, d) ==
    Add(IF IsFlat(et_) THEN Mul(ev_, Num(2)) ELSE Zero(1),
        IF IsFlat(mt_) THEN Mul(mv_, d) ELSE Zero(1))

\* Mutant: coeff counts the linear execution fee for one leg only.
solve_coeff_oneleg(stp, p, et_, ev_, mt_, mv_, d) ==
    Add(Add(stp,
            IF IsPct(et_) THEN NpDiv(Mul(p, ev_), Num(100))
            ELSE IF IsSpread(et_) THEN ev_
            ELSE Zero(1)),
        IF IsPct(mt_) THEN Mul(NpDiv(Mul(p, mv_), Num(100)), d) ELSE Zero(1))

\* `coeff` of solve_size_exact
solve_coeff(stp, p, et_, ev_, mt_, mv_, d) ==
    Add(Add(stp,
            IF IsPct(et_) THEN Mul(NpDiv(Mul(p, ev_), Num(100)), Num(2))
            ELSE IF IsSpread(et_) THEN Mul(ev_, Num(2))
            ELSE Zero(1)),
        IF IsPct(mt_) THEN Mul(NpDiv(Mul(p, mv_), Num(100)), d) ELSE Zero(1))

\* solve_size_exact returns (size, fixed); this is size
solve_size_exact(stp, p, R_, et_, ev_, mt_, mv_, d) ==
    LET fixed == solve_fixed(et_, ev_, mt_, mv_, d)
        coeff == solve_coeff(stp, p, et_, ev_, mt_, mv_, d)
    IN IF Truthy(coeff) THEN PyMax(PyDiv(Sub(R_, fixed), coeff), Zero(1))
       ELSE Zero(1)

\* Mutant: the gross target recovers the execution fee of one leg only.
tp_needed_oneleg(q, p, rr_, R_, et_, ev_, mt_, mv_, d) ==
    LET gross == Add(Add(Mul(rr_, R_), usd_exec_fee(q, p, et_, ev_)),
                     usd_maint_fee(q, p, mt_, mv_, d))
    IN IF Truthy(q) THEN PyDiv(gross, q) ELSE NaN

\* Mutant: gross / q without the `if q` guard.
tp_needed_unguarded(q, p, rr_, R_, et_, ev_, mt_, mv_, d) ==
    LET gross == Add(Add(Mul(rr_, R_), Mul(usd_exec_fee(q, p, et_, ev_), Num(2))),
                     usd_maint_fee(q, p, mt_, mv_, d))
    IN PyDiv(gross, q)

tp_needed(q, p, rr_, R_, et_, ev_, mt_, mv_, d) ==
    LET gross == Add(Add(Mul(rr_, R_), Mul(usd_exec_fee(q, p, et_, ev_), Num(2))),
                     usd_maint_fee(q, p, mt_, mv_, d))
    IN IF Truthy(q) THEN PyDiv(gross, q) ELSE NaN

\* Mutant: the step of endpoint=False, the last sample short of stop.
linspace_noendpoint(start, stop, num, j) ==
    Add(Mul(Num(j), NpDiv(Sub(stop, start), Num(num))), start)

\* np.linspace(start, stop, num)[j], 0-based j, num > 1, endpoint included
linspace(start, stop, num, j) ==
    LET step == NpDiv(Sub(stop, start), Num(num - 1))
    IN IF j = num - 1 THEN stop ELSE Add(Mul(Num(j), step), start)

\* ------------------------------------------------------------ state
VARIABLES
    pc,        \* "idle" | "sweep" | "done" | "error" | "fault"
    sizing, et, ev, mt, mv, days, price, R, min_sl, max_sl, rr, fee_cap,
    idx,         \* index of the next sample of the sweep loop
    rows,      \* the rows appended so far
    min_ok,    \* minimum SL that respects the cap (NaN: none); NoValue before it is computed
    vline      \* the "min SL @ fee cap" marker was drawn

inputs == <<sizing, et, ev, mt, mv, days, price, R, min_sl, max_sl, rr, fee_cap>>
vars == <<pc, sizing, et, ev, mt, mv, days, price, R, min_sl, max_sl, rr, fee_cap,
          idx, rows, min_ok, vline>>

Range(f) == {f[x] : x \in DOMAIN f}

Init ==
    /\ pc = "idle"
    /\ sizing = SIZINGS[1] /\ et = EXEC_TYPES[1] /\ ev = 0
    /\ mt = MAINT_TYPES[1] /\ mv = 0 /\ days = 1 /\ price = 2
    /\ R = 1 /\ min_sl = 1 /\ max_sl = 2 /\ rr = 1 /\ fee_cap = 0
    /\ idx = 0 /\ rows = <<>> /\ min_ok = NoValue /\ vline = FALSE

\* The script runs with "Generate" pressed: the widget values are read and the
\* calculation starts with an empty row list.  fee_cap is read by nothing before
\* the threshold is computed; its widget value is drawn there (Finish).
Generate ==
    /\ pc = "idle"
    /\ sizing' \in Range(SIZINGS)
    /\ et' \in Range(EXEC_TYPES) /\ ev' \in Fees
    /\ mt' \in Range(MAINT_TYPES) /\ mv' \in Fees
    /\ days' \in DaysHeld /\ price' \in Prices
    /\ R' \in Risks
    /\ min_sl' \in MinStops /\ max_sl' \in MaxStops
    /\ rr' \in Ratios
    /\ pc' = "sweep" /\ idx' = 0 /\ rows' = <<>>
    /\ UNCHANGED <<fee_cap, min_ok, vline>>

\* stp of the current loop iteration
CurStop == linspace(Num(min_sl), Num(max_sl), PTS, idx)

\* Lines 214-220: the fee totals of one sample and its row.
MakeRow(stp, eff, q, tp) ==
    LET var_maint == IF IsFlat(mt) THEN Zero(1)
                     ELSE usd_maint_fee(q, Num(price), mt, Num(mv), Num(days))
        tot == Add(Add(Mul(usd_exec_fee(q, Num(price), et, Num(ev)), Num(2)), var_maint),
                   IF IsFlat(mt) THEN Mul(Num(mv), Num(days)) ELSE Zero(1))
    IN [SL |-> stp, Eff_SL |-> eff, Size |-> q,
        Fees_pct |-> IF Truthy(Num(R)) THEN PyDiv(Mul(tot, Num(100)), Num(R)) ELSE Zero(1),
        TP |-> tp,
        BE_dist |-> IF Truthy(q) THEN PyDiv(tot, q) ELSE NaN]

RowFaults(r) ==
    IsErr(r.SL) \/ IsErr(r.Eff_SL) \/ IsErr(r.Size) \/ IsErr(r.Fees_pct)
        \/ IsErr(r.TP) \/ IsErr(r.BE_dist)

\* rows.append(...) and on to the next sample; an exception ends the run.
AppendRow(stp, eff, q, tp) ==
    LET row == MakeRow(stp, eff, q, tp)
    IN IF RowFaults(row)
       THEN pc' = "fault" /\ UNCHANGED <<idx, rows>>
       ELSE pc' = pc /\ idx' = idx + 1 /\ rows' = Append(rows, row)

\* Policy B: size on price risk alone, stop shrunk by the round-trip fee.
ShrinkSize(stp) == NpDiv(Num(R), stp)

\* Mutant: the stop is shrunk by the fee of one leg only.
ShrinkEff_oneleg(stp) ==
    Sub(stp, IF IsFlat(et) THEN NpDiv(Num(ev), ShrinkSize(stp))
             ELSE fee_price_units(et, Num(ev), Num(price)))

ShrinkEff(stp) ==
    Sub(stp, IF IsFlat(et) THEN NpDiv(Mul(Num(2), Num(ev)), ShrinkSize(stp))
             ELSE Mul(Num(2), fee_price_units(et, Num(ev), Num(price))))

\* Mutant: `if eff < 0: continue`, a zero effective stop is kept.
ShrinkInfeasible_strict(eff) == Lt(eff, Zero(1))

\* `if eff <= 0: continue`
ShrinkInfeasible(eff) == Le(eff, Zero(1))

StepInclude ==
    /\ pc = "sweep" /\ idx < PTS /\ sizing = SIZINGS[1]
    /\ LET stp == CurStop
           q == solve_size_exact(stp, Num(price), Num(R), et, Num(ev), mt, Num(mv), Num(days))
           tp == tp_needed(q, Num(price), Num(rr), Num(R), et, Num(ev), mt, Num(mv), Num(days))
       IN AppendRow(stp, stp, q, tp)
    /\ UNCHANGED <<inputs, min_ok, vline>>

StepShrink ==
    /\ pc = "sweep" /\ idx < PTS /\ sizing = SIZINGS[2]
    /\ LET stp == CurStop
           q == ShrinkSize(stp)
           eff == ShrinkEff(stp)
       IN IF ShrinkInfeasible(eff)
          THEN pc' = pc /\ idx' = idx + 1 /\ rows' = rows
          ELSE AppendRow(stp, eff, q, Mul(Num(rr), stp))
    /\ UNCHANGED <<inputs, min_ok, vline>>

StepWiden ==
    /\ pc = "sweep" /\ idx < PTS /\ sizing = SIZINGS[3]
    /\ LET stp == CurStop
           q == NpDiv(Num(R), stp)
           tp == tp_needed(q, Num(price), Num(rr), Num(R), et, Num(ev), mt, Num(mv), Num(days))
       IN AppendRow(stp, stp, q, tp)
    /\ UNCHANGED <<inputs, min_ok, vline>>

\* `if not rows: st.error("No valid points ..."); return`
NoPoints ==
    /\ pc = "sweep" /\ idx = PTS /\ rows = <<>>
    /\ pc' = "error"
    /\ UNCHANGED <<inputs, idx, rows, min_ok, vline>>

\* Mutant: the rows at or above the cap are selected.
Qualifies_above(r, cap) == Le(Num(cap), r.Fees_pct)

\* df[df.Fees_pct <= fee_cap]
Qualifies(r, cap) == Le(r.Fees_pct, Num(cap))

RECURSIVE SeqMaxSL(_)
\* Mutant: the largest SL is taken.
SeqMaxSL(rs) ==
    IF rs = <<>> THEN NaN
    ELSE LET m == SeqMaxSL(Tail(rs))
         IN IF IsNaN(m) \/ Lt(m, Head(rs).SL) THEN Head(rs).SL ELSE m

RECURSIVE SeqMinSL(_)
\* Series.min() of the SL column: NaN for an empty selection
SeqMinSL(rs) ==
    IF rs = <<>> THEN NaN
    ELSE LET m == SeqMinSL(Tail(rs))
         IN IF IsNaN(m) \/ Lt(Head(rs).SL, m) THEN Head(rs).SL ELSE m

MinOk(rs, cap) == SeqMinSL(SelectSeq(rs, LAMBDA r: Qualifies(r, cap)))

\* Lines 227-251: the threshold and its marker.
Finish ==
    /\ pc = "sweep" /\ idx = PTS /\ rows # <<>>
    /\ fee_cap' \in FeeCaps
    /\ min_ok' = MinOk(rows, fee_cap')
    /\ vline' = ~IsNaN(min_ok')
    /\ pc' = "done"
    /\ UNCHANGED <<sizing, et, ev, mt, mv, days, price, R, min_sl, max_sl, rr, idx, rows>>

\* Any later interaction reruns the script from the top; without "Generate"
\* it returns before the calculation and nothing of the last run is kept.
Rerun ==
    /\ pc \in {"done", "error", "fault"}
    /\ pc' = "idle" /\ idx' = 0 /\ rows' = <<>> /\ min_ok' = NoValue /\ vline' = FALSE
    /\ sizing' = SIZINGS[1] /\ et' = EXEC_TYPES[1] /\ ev' = 0
    /\ mt' = MAINT_TYPES[1] /\ mv' = 0 /\ days' = 1 /\ price' = 2
    /\ R' = 1 /\ min_sl' = 1 /\ max_sl' = 2 /\ rr' = 1 /\ fee_cap' = 0

Next ==
    \/ Generate
    \/ StepInclude
    \/ StepShrink
    \/ StepWiden
    \/ NoPoints
    \/ Finish
    \/ Rerun

Spec == Init /\ [][Next]_vars

\* ------------------------------------------------------------ properties
Rows == {rows[j] : j \in 1..Len(rows)}
Include == sizing = SIZINGS[1]
Shrink == sizing = SIZINGS[2]
Widen == sizing = SIZINGS[3]
\* the sweep range the design assumes: 0 < minStop < maxStop
StopsInContract == 0 < min_sl /\ min_sl < max_sl

ExecFee(q) == usd_exec_fee(q, Num(price), et, Num(ev))
MaintFee(q) == usd_maint_fee(q, Num(price), mt, Num(mv), Num(days))
Positive(x) == Gt(x, Zero(1))

\* C1: under Policy A, for a stop distance > 0 and a returned size > 0, the
\* price-move loss plus the round-trip execution fee plus the maintenance fee
\* is exactly the risk budget.
C1_PolicyAExhaustsBudget ==
    Include =>
        \A r \in Rows :
            (Positive(r.SL) /\ Positive(r.Size)) =>
                Eq(Add(Add(Mul(r.Size, r.SL), Mul(Num(2), ExecFee(r.Size))), MaintFee(r.Size)),
                   Num(R))

C1_Witness ==
    /\ pc = "done" /\ Include /\ IsPct(et) /\ ev > 0 /\ IsFlat(mt) /\ mv > 0
    /\ \E r \in Rows : Positive(r.SL) /\ Positive(r.Size)

\* C2: under Policy A the size is 0 whenever coeff <= 0 (negative coeff
\* included), and max((R - fixed) / coeff, 0) otherwise.
C2_ZeroSizeWhenCoeffNotPositive ==
    Include =>
        \A r \in Rows :
            LET fixed == solve_fixed(et, Num(ev), mt, Num(mv), Num(days))
                coeff == solve_coeff(r.SL, Num(price), et, Num(ev), mt, Num(mv), Num(days))
                ratio == NpDiv(Sub(Num(R), fixed), coeff)
            IN IF Le(coeff, Zero(1)) THEN IsZero(r.Size)
               ELSE /\ Eq(r.Size, IF Positive(ratio) THEN ratio ELSE Zero(1))
                    /\ Le(Zero(1), r.Size)

\* the j-th of PTS evenly spaced stops from min_sl to max_sl (0-based)
Sample(j) == Rat(min_sl * (PTS - 1) + j * (max_sl - min_sl), PTS - 1)
Emitted(j) == \E r \in Rows : Eq(r.SL, Sample(j))

\* C3 as claimed: under Policy B a visited sample has a row if and only if its
\* effective stop is > 0, and every row has Eff_SL > 0.
C3_RowIffEffPositive ==
    (Shrink /\ StopsInContract) =>
        /\ \A r \in Rows : Positive(r.Eff_SL)
        /\ \A j \in 0..(idx - 1) : Emitted(j) <=> Positive(ShrinkEff(Sample(j)))

\* C3 amended: under Policy B a visited sample is skipped if and only if its
\* effective stop is <= 0; a row carries the unclamped effective stop, which is
\* > 0 or, only when the risk budget is 0 (size 0, flat fee 0: 0/0), NaN.
C3_RowIffEffNotLeZero ==
    (Shrink /\ StopsInContract) =>
        /\ \A r \in Rows :
            /\ Positive(r.Eff_SL) \/ (IsNaN(r.Eff_SL) /\ R = 0 /\ IsFlat(et) /\ ev = 0)
            /\ Positive(r.Size) =>
                   Eq(r.Eff_SL, Sub(r.SL, NpDiv(Mul(Num(2), ExecFee(r.Size)), r.Size)))
        /\ \A j \in 0..(idx - 1) : Emitted(j) <=> ~Le(ShrinkEff(Sample(j)), Zero(1))

C3_Witness ==
    /\ pc = "done" /\ Shrink /\ StopsInContract /\ R > 0
    /\ Len(rows) > 0 /\ Len(rows) < PTS

\* C4 as claimed: under Policy B, for every emitted row, size = R / SL and
\* size * Eff_SL + 2 * usd_exec_fee(size, price) = size * SL.
C4_ShrinkCompensatesFees ==
    (Shrink /\ StopsInContract) =>
        \A r \in Rows :
            /\ Eq(r.Size, NpDiv(Num(R), r.SL))
            /\ Eq(Add(Mul(r.Size, r.Eff_SL), Mul(Num(2), ExecFee(r.Size))),
                  Mul(r.Size, r.SL))

\* C4 amended: the same, for every emitted row whose Eff_SL is a number (not
\* the NaN of a zero risk budget with a zero flat fee).
C4_ShrinkCompensatesFeesNumeric ==
    (Shrink /\ StopsInContract) =>
        \A r \in Rows :
            ~IsNaN(r.Eff_SL) =>
                /\ Eq(r.Size, NpDiv(Num(R), r.SL))
                /\ Eq(Add(Mul(r.Size, r.Eff_SL), Mul(Num(2), ExecFee(r.Size))),
                      Mul(r.Size, r.SL))

C4_Witness ==
    /\ pc = "done" /\ Shrink /\ StopsInContract /\ IsFlat(et) /\ ev > 0
    /\ \E r \in Rows : Positive(r.Size) /\ Positive(r.Eff_SL)

\* C5: after a sweep with at least one row the minimum viable stop is the
\* smallest SL among the rows with Fees_pct <= fee cap, and the marker is drawn
\* for it; with no such row there is no value and no marker.  An empty sweep
\* ends in the "no valid points" error with no threshold computed.
C5_MinViableStop ==
    /\ pc = "done" =>
        /\ rows # <<>>
        /\ LET Q == {r \in Rows : Le(r.Fees_pct, Num(fee_cap))}
           IN IF Q = {} THEN IsNaN(min_ok) /\ ~vline
              ELSE /\ vline
                   /\ \E r \in Q : Eq(min_ok, r.SL)
                   /\ \A r \in Q : Le(min_ok, r.SL)
    /\ pc = "error" => (rows = <<>> /\ idx = PTS /\ min_ok = NoValue /\ ~vline)
    /\ pc \in {"idle", "sweep"} => (min_ok = NoValue /\ ~vline)
    /\ (idx = PTS /\ rows = <<>>) => pc # "done"

C5_Witness == pc = "done" /\ Len(rows) = PTS /\ StopsInContract /\ IsNaN(min_ok)

\* C6: a sweep with min_sl >= max_sl produces no rows and no minimum viable
\* stop (it is rejected as invalid input).
C6_DegenerateRangeRejected ==
    (min_sl >= max_sl) => (rows = <<>> /\ min_ok = NoValue /\ pc # "done")

C8_SweepOrder ==
    (min_sl < max_sl) =>
        /\ Len(rows) <= idx /\ idx <= PTS
        /\ \A j \in 1..(Len(rows) - 1) : Lt(rows[j].SL, rows[j + 1].SL)
        /\ \A r \in Rows : \E j \in 0..(idx - 1) : Eq(r.SL, Sample(j))
        /\ (Include \/ Widen) =>
               /\ pc \in {"sweep", "done"} => Len(rows) = idx
               /\ \A j \in 1..Len(rows) : Eq(rows[j].SL, Sample(j - 1))
               /\ pc = "done" =>
                      /\ Len(rows) = PTS
                      /\ Eq(rows[1].SL, Num(min_sl))
                      /\ Eq(rows[PTS].SL, Num(max_sl))

C8_Witness == pc = "done" /\ Widen /\ min_sl < max_sl /\ Len(rows) = PTS

\* C9: no step of the sweep faults on a zero divisor.  With coeff = 0 the size
\* is 0, with size 0 TP (Policies A, C) and BE_dist are NaN, with R = 0
\* Fees_pct is 0, a Policy B sample with a zero size is a row of defined values
\* or is skipped, and the sweep goes on to the last sample.
C9_NoZeroDivisorFault ==
    /\ pc # "fault"
    /\ pc \in {"done", "error"} => idx = PTS
    /\ \A r \in Rows :
        /\ ~RowFaults(r)
        /\ IsZero(r.Size) => (IsNaN(r.BE_dist) /\ (~Shrink => IsNaN(r.TP)))
        /\ R = 0 => IsZero(r.Fees_pct)
        /\ (Include /\ IsZero(solve_coeff(r.SL, Num(price), et, Num(ev), mt, Num(mv), Num(days))))
               => IsZero(r.Size)

C9_Witness ==
    /\ pc = "done" /\ R = 0 /\ Shrink /\ IsFlat(et) /\ Len(rows) = PTS
    /\ \A r \in Rows : IsZero(r.Size) /\ IsNaN(r.Eff_SL) /\ IsNaN(r.BE_dist)

\* C10: for the rows of a sweep and caps c1 <= c2, every row that qualifies
\* under c1 qualifies under c2, and the minimum viable stop under c2 exists
\* and is not larger whenever the one under c1 exists.
C10_FeeCapMonotone ==
    pc = "done" =>
        \A c1 \in FeeCaps, c2 \in FeeCaps :
            c1 < c2 =>
                LET m1 == MinOk(rows, c1)
                    m2 == MinOk(rows, c2)
                IN /\ \A r \in Rows : Qualifies(r, c1) => Qualifies(r, c2)
                   /\ ~IsNaN(m1) => (~IsNaN(m2) /\ Le(m2, m1))

C10_Witness ==
    /\ pc = "done"
    /\ \E c1 \in FeeCaps, c2 \in FeeCaps :
        /\ c1 < c2
        /\ ~IsNaN(MinOk(rows, c1))
        /\ Lt(MinOk(rows, c2), MinOk(rows, c1))

==========================================================================
